---- MODULE Spec2Model ----
(***************************************************************************)
(* bswitcher: pick a bspwm node with dmenu and focus it with bspc.         *)
(* The model follows run() of src/main.rs statement by statement.  Every   *)
(* external command goes through sh(), which either yields the command's   *)
(* standard output or an error that `?` propagates out of run().           *)
(* Strings are sequences of one-character strings, so that comparison,     *)
(* lower-casing and quote replacement are computed and not assumed.        *)
(***************************************************************************)
EXTENDS Integers, Sequences, FiniteSets, TLC

VARIABLES
    pc,                     \* position in run()
    src,                    \* cli.is_present("src")
    sort_order,             \* --sort-order
    reverse,                \* --reverse
    format_string,          \* --format-string
    pipe,                   \* --pipe
    bspwm_focus_history,    \* nodeId of each focusHistory item, oldest first
    nodes_in_history_order, \* deduplicated node ids, most recent first
    xtitles,                \* lines of the output of `xtitle <ids>`
    sorted_nodes,           \* (xtitle, node_id) pairs after pairing and sorting
    formated_nodes,         \* (formatted title, node_id) pairs
    sh_scripts,             \* variable bindings of each formatting script run
    titles,                 \* formatted titles in display order
    nodes,                  \* node ids in display order
    dmenu_stdin,            \* the title lists dmenu was started with
    target_title,           \* what dmenu printed
    focused,                \* ids `bspc node --focus` was started with
    failed_at               \* the sh() call whose error ended the run

vars == <<pc, src, sort_order, reverse, format_string, pipe, bspwm_focus_history,
          nodes_in_history_order, xtitles, sorted_nodes, formated_nodes,
          sh_scripts, titles, nodes, dmenu_stdin, target_title, focused,
          failed_at>>

----------------------------------------------------------------------------
(* Bounds of the model *)

\* longest focus history dumped by bspwm
MaxHist == 3
\* most lines printed by xtitle
MaxLines == 3

\* node ids as printed by serde_json (decimal strings)
NodeIds == { <<"9">>, <<"1", "0">>, <<"1", "1">> }

\* window titles; the empty one is a window without title
XTitles == { <<>>, <<"a">>, <<"A">>, <<"B", "'">> }

SortOrder == {"FocusHistory", "FocusHistoryCurrentFirst", "Creation", "Alphabetical"}

FormatStrings == {"$line_number - $xtitle", "$xtitle"}

Pipes == {"None", "tr A-Z a-z"}

\* target_title before dmenu has printed anything: no formatted title equals it
NoTitle == <<"NoTitle">>

SeqsUpTo(S, n) == UNION { [1..k -> S] : k \in 0..n }

----------------------------------------------------------------------------
(* Strings *)

\* characters in code point order
Chars == << "'", "0", "1", "2", "3", "4", "5", "6", "7", "8", "9",
            "A", "B", "a", "b" >>

Ord(c) == CHOOSE i \in DOMAIN Chars : Chars[i] = c

Reverse(s) == [i \in 1..Len(s) |-> s[Len(s) + 1 - i]]

\* Ord::cmp of two strings: -1 Less, 0 Equal, 1 Greater
RECURSIVE StrCmp(_, _)
StrCmp(a, b) ==
    IF a = <<>> /\ b = <<>> THEN 0
    ELSE IF a = <<>> THEN -1
    ELSE IF b = <<>> THEN 1
    ELSE IF Ord(Head(a)) < Ord(Head(b)) THEN -1
    ELSE IF Ord(Head(a)) > Ord(Head(b)) THEN 1
    ELSE StrCmp(Tail(a), Tail(b))

LowerChar(c) == CASE c = "A" -> "a" [] c = "B" -> "b" [] OTHER -> c

to_lowercase(s) == [i \in 1..Len(s) |-> LowerChar(s[i])]

\* xtitle.replace("'", U+2019); "rsquo" stands for the character U+2019
ReplaceQuote(s) == [i \in 1..Len(s) |-> IF s[i] = "'" THEN "rsquo" ELSE s[i]]

Digit(n) == <<"0", "1", "2", "3", "4", "5", "6", "7", "8", "9">>[n + 1]

\* Display of a usize
RECURSIVE Decimal(_)
Decimal(n) == IF n < 10 THEN <<Digit(n)>> ELSE Decimal(n \div 10) \o <<Digit(n % 10)>>

----------------------------------------------------------------------------
(* Deduplication of the focus history *)

\* Itertools::unique: keeps the first occurrence of each element
RECURSIVE unique(_)
unique(s) ==
    IF s = <<>> THEN <<>>
    ELSE LET front == unique(SubSeq(s, 1, Len(s) - 1))
             last == s[Len(s)]
         IN IF \E i \in DOMAIN front : front[i] = last THEN front
            ELSE Append(front, last)

\* the same without .rev(): the oldest occurrence of each node survives
NodesOldestFirst(history) == unique(history)

NodesInHistoryOrder(history) == unique(Reverse(history))

----------------------------------------------------------------------------
Init ==
    /\ pc = "start"
    /\ src \in BOOLEAN
    /\ sort_order \in SortOrder
    /\ reverse \in BOOLEAN
    /\ format_string \in FormatStrings
    /\ pipe \in Pipes
    /\ bspwm_focus_history = <<>>
    /\ nodes_in_history_order = <<>>
    /\ xtitles = <<>>
    /\ sorted_nodes = <<>>
    /\ formated_nodes = <<>>
    /\ sh_scripts = <<>>
    /\ titles = <<>>
    /\ nodes = <<>>
    /\ dmenu_stdin = <<>>
    /\ target_title = NoTitle
    /\ focused = <<>>
    /\ failed_at = "none"

\* if cli.is_present("src") { print!(..); return Ok(()) }
PrintSrc ==
    /\ pc = "start"
    /\ src
    /\ pc' = "exit_ok"
    /\ UNCHANGED <<src, sort_order, reverse, format_string, pipe, bspwm_focus_history,
                   nodes_in_history_order, xtitles, sorted_nodes, formated_nodes,
                   sh_scripts, titles, nodes, dmenu_stdin, target_title, focused,
                   failed_at>>

\* dependencies(..)? succeeds
DependenciesOk ==
    /\ pc = "start"
    /\ ~src
    /\ pc' = "dump_state"
    /\ UNCHANGED <<src, sort_order, reverse, format_string, pipe, bspwm_focus_history,
                   nodes_in_history_order, xtitles, sorted_nodes, formated_nodes,
                   sh_scripts, titles, nodes, dmenu_stdin, target_title, focused,
                   failed_at>>

\* dependencies(..)? fails
DependenciesErr ==
    /\ pc = "start"
    /\ ~src
    /\ pc' = "exit_err"
    /\ failed_at' = "dependencies"
    /\ UNCHANGED <<src, sort_order, reverse, format_string, pipe, bspwm_focus_history,
                   nodes_in_history_order, xtitles, sorted_nodes, formated_nodes,
                   sh_scripts, titles, nodes, dmenu_stdin, target_title, focused>>

\* sh("bspc wm --dump-state")? and the two JSON parses succeed
DumpStateOk ==
    /\ pc = "dump_state"
    /\ \E history \in SeqsUpTo(NodeIds, MaxHist) : bspwm_focus_history' = history
    /\ pc' = "unique"
    /\ UNCHANGED <<src, sort_order, reverse, format_string, pipe,
                   nodes_in_history_order, xtitles, sorted_nodes, formated_nodes,
                   sh_scripts, titles, nodes, dmenu_stdin, target_title, focused,
                   failed_at>>

\* sh("bspc wm --dump-state")? or one of the JSON parses fails
DumpStateErr ==
    /\ pc = "dump_state"
    /\ pc' = "exit_err"
    /\ failed_at' = "bspc wm --dump-state"
    /\ UNCHANGED <<src, sort_order, reverse, format_string, pipe, bspwm_focus_history,
                   nodes_in_history_order, xtitles, sorted_nodes, formated_nodes,
                   sh_scripts, titles, nodes, dmenu_stdin, target_title, focused>>

\* .iter().map(nodeId).rev().unique().collect()
Unique ==
    /\ pc = "unique"
    /\ nodes_in_history_order' = NodesInHistoryOrder(bspwm_focus_history)
    /\ pc' = "xtitle"
    /\ UNCHANGED <<src, sort_order, reverse, format_string, pipe, bspwm_focus_history,
                   xtitles, sorted_nodes, formated_nodes,
                   sh_scripts, titles, nodes, dmenu_stdin, target_title, focused,
                   failed_at>>

\* sh("xtitle <ids>")? succeeds; bspwm_focus_history went out of scope
XtitleOk ==
    /\ pc = "xtitle"
    /\ \E lines \in SeqsUpTo(XTitles, MaxLines) : xtitles' = lines
    /\ bspwm_focus_history' = <<>>
    /\ pc' = "sort"
    /\ UNCHANGED <<src, sort_order, reverse, format_string, pipe,
                   nodes_in_history_order, sorted_nodes, formated_nodes,
                   sh_scripts, titles, nodes, dmenu_stdin, target_title, focused,
                   failed_at>>

\* sh("xtitle <ids>")? fails
XtitleErr ==
    /\ pc = "xtitle"
    /\ bspwm_focus_history' = <<>>
    /\ pc' = "exit_err"
    /\ failed_at' = "xtitle"
    /\ UNCHANGED <<src, sort_order, reverse, format_string, pipe,
                   nodes_in_history_order, xtitles, sorted_nodes, formated_nodes,
                   sh_scripts, titles, nodes, dmenu_stdin, target_title, focused>>

----------------------------------------------------------------------------
(* Pairing, sorting and formatting *)

Min(a, b) == IF a < b THEN a ELSE b

RECURSIVE Filter(_)
\* .filter(|(title, _node_id)| !title.is_empty())
Filter(s) ==
    IF s = <<>> THEN <<>>
    ELSE IF Head(s)[1] = <<>> THEN Filter(Tail(s))
    ELSE <<Head(s)>> \o Filter(Tail(s))

\* xtitles.lines().zip(nodes_in_history_order.iter()): as long as the shorter one
Zip(lines, ids) == [i \in 1..Min(Len(lines), Len(ids)) |-> <<lines[i], ids[i]>>]

PairedNodes(lines, ids) == Filter(Zip(lines, ids))

\* the comparison without to_lowercase()
CompareCaseSensitive(a, b, order) ==
    CASE order = "Alphabetical" -> StrCmp(a[1], b[1])
      [] order = "Creation" -> StrCmp(a[2], b[2])
      [] OTHER -> 0

\* the comparison closure given to sorted_by
Compare(a, b, order) ==
    CASE order = "Alphabetical" -> StrCmp(to_lowercase(a[1]), to_lowercase(b[1]))
      [] order = "Creation" -> StrCmp(a[2], b[2])
      [] OTHER -> 0

\* x goes behind every element that is not greater than it
RECURSIVE Insert(_, _, _)
Insert(s, x, order) ==
    IF s = <<>> THEN <<x>>
    ELSE IF Compare(Head(s), x, order) > 0 THEN <<x>> \o s
    ELSE <<Head(s)>> \o Insert(Tail(s), x, order)

\* Itertools::sorted_by: a stable sort
RECURSIVE SortedBy(_, _)
SortedBy(s, order) ==
    IF s = <<>> THEN <<>>
    ELSE Insert(SortedBy(SubSeq(s, 1, Len(s) - 1), order), s[Len(s)], order)

\* the rotation in the other direction: pop() and insert(0, last)
MoveLastToFront(s) == <<s[Len(s)]>> \o SubSeq(s, 1, Len(s) - 1)

\* let first = sorted_nodes.remove(0); sorted_nodes.push(first)
MoveFirstToEnd(s) == Append(Tail(s), Head(s))

\* the variables the formatting script of entry number idx (from 1) sets
ShScript(idx) ==
    [ line_number |-> idx - 1,
      xtitle |-> ReplaceQuote(sorted_nodes[idx][1]),
      number_of_nodes |-> Len(xtitles) ]

\* echo "<format_string>": the shell's expansion of the format string
Expand(format, script) ==
    IF format = "$xtitle" THEN script.xtitle
    ELSE Decimal(script.line_number) \o <<" ", "-", " ">> \o script.xtitle

\* | <pipe>
Piped(text, p) == IF p = "tr A-Z a-z" THEN to_lowercase(text) ELSE text

\* standard output of the formatting script
ShOutput(format, p, script) == Piped(Expand(format, script), p) \o <<"\n">>

\* the reversal left out
NeverReversed(s, rev) == s

\* if cli.is_present("reverse") { formated_nodes.reverse() }
MaybeReversed(s, rev) == IF rev THEN Reverse(s) ELSE s

\* rposition: the last matching title
PositionLast(ts, t) ==
    IF \E i \in DOMAIN ts : ts[i] = t
    THEN CHOOSE i \in DOMAIN ts : ts[i] = t /\ \A j \in (i + 1)..Len(ts) : ts[j] # t
    ELSE 0

\* titles.iter().position(|title| title == &target_title)
Position(ts, t) ==
    IF \E i \in DOMAIN ts : ts[i] = t
    THEN CHOOSE i \in DOMAIN ts : ts[i] = t /\ \A j \in 1..(i - 1) : ts[j] # t
    ELSE 0

\* pairing, filtering and sorted_by(..).collect()
Sort ==
    /\ pc = "sort"
    /\ sorted_nodes' = SortedBy(PairedNodes(xtitles, nodes_in_history_order), sort_order)
    /\ pc' = IF sort_order = "FocusHistory" THEN "rotate" ELSE "format"
    /\ UNCHANGED <<src, sort_order, reverse, format_string, pipe, bspwm_focus_history,
                   nodes_in_history_order, xtitles, formated_nodes,
                   sh_scripts, titles, nodes, dmenu_stdin, target_title, focused,
                   failed_at>>

\* if let SortOrder::FocusHistory = sort_order { remove(0); push(first) }
Rotate ==
    /\ pc = "rotate"
    /\ sorted_nodes # <<>>
    /\ sorted_nodes' = MoveFirstToEnd(sorted_nodes)
    /\ pc' = "format"
    /\ UNCHANGED <<src, sort_order, reverse, format_string, pipe, bspwm_focus_history,
                   nodes_in_history_order, xtitles, formated_nodes,
                   sh_scripts, titles, nodes, dmenu_stdin, target_title, focused,
                   failed_at>>

\* Vec::remove(0) on an empty vector panics
RotatePanic ==
    /\ pc = "rotate"
    /\ sorted_nodes = <<>>
    /\ pc' = "panicked"
    /\ UNCHANGED <<src, sort_order, reverse, format_string, pipe, bspwm_focus_history,
                   nodes_in_history_order, xtitles, sorted_nodes, formated_nodes,
                   sh_scripts, titles, nodes, dmenu_stdin, target_title, focused,
                   failed_at>>

\* the closure of .map() on the next entry: sh(script) succeeds
FormatOk ==
    /\ pc = "format"
    /\ Len(formated_nodes) < Len(sorted_nodes)
    /\ LET idx == Len(formated_nodes) + 1
           script == ShScript(idx)
       IN /\ sh_scripts' = Append(sh_scripts, script)
          /\ formated_nodes' = Append(formated_nodes,
                 <<ShOutput(format_string, pipe, script), sorted_nodes[idx][2]>>)
    /\ UNCHANGED <<pc, src, sort_order, reverse, format_string, pipe, bspwm_focus_history,
                   nodes_in_history_order, xtitles, sorted_nodes,
                   titles, nodes, dmenu_stdin, target_title, focused,
                   failed_at>>

\* the error of sh(script) swallowed: the entry gets an empty title
FormatErrIgnored ==
    /\ pc = "format"
    /\ Len(formated_nodes) < Len(sorted_nodes)
    /\ sh_scripts' = Append(sh_scripts, ShScript(Len(formated_nodes) + 1))
    /\ formated_nodes' = Append(formated_nodes,
           << <<>>, sorted_nodes[Len(formated_nodes) + 1][2] >>)
    /\ failed_at' = "format"
    /\ UNCHANGED <<pc, src, sort_order, reverse, format_string, pipe, bspwm_focus_history,
                   nodes_in_history_order, xtitles, sorted_nodes,
                   titles, nodes, dmenu_stdin, target_title, focused>>

\* the closure of .map() on the next entry: sh(script) fails, collect()? returns
FormatErr ==
    /\ pc = "format"
    /\ Len(formated_nodes) < Len(sorted_nodes)
    /\ sh_scripts' = Append(sh_scripts, ShScript(Len(formated_nodes) + 1))
    /\ pc' = "exit_err"
    /\ failed_at' = "format"
    /\ UNCHANGED <<src, sort_order, reverse, format_string, pipe, bspwm_focus_history,
                   nodes_in_history_order, xtitles, sorted_nodes, formated_nodes,
                   titles, nodes, dmenu_stdin, target_title, focused>>

\* collect() is complete; maybe reverse; unzip
ReverseUnzip ==
    /\ pc = "format"
    /\ Len(formated_nodes) = Len(sorted_nodes)
    /\ formated_nodes' = MaybeReversed(formated_nodes, reverse)
    /\ titles' = [i \in DOMAIN formated_nodes |-> formated_nodes'[i][1]]
    /\ nodes' = [i \in DOMAIN formated_nodes |-> formated_nodes'[i][2]]
    /\ pc' = "dmenu"
    /\ UNCHANGED <<src, sort_order, reverse, format_string, pipe, bspwm_focus_history,
                   nodes_in_history_order, xtitles, sorted_nodes,
                   sh_scripts, dmenu_stdin, target_title, focused,
                   failed_at>>

\* sh("echo -n '<titles>' | dmenu ..")? : the user picks a line
DmenuSelect ==
    /\ pc = "dmenu"
    /\ dmenu_stdin' = Append(dmenu_stdin, titles)
    /\ \E i \in DOMAIN titles : target_title' = titles[i]
    /\ pc' = "focus"
    /\ UNCHANGED <<src, sort_order, reverse, format_string, pipe, bspwm_focus_history,
                   nodes_in_history_order, xtitles, sorted_nodes, formated_nodes,
                   sh_scripts, titles, nodes, focused,
                   failed_at>>

\* the user leaves dmenu without a choice and sh() yields its empty output
DmenuCancel ==
    /\ pc = "dmenu"
    /\ dmenu_stdin' = Append(dmenu_stdin, titles)
    /\ target_title' = <<>>
    /\ pc' = "focus"
    /\ UNCHANGED <<src, sort_order, reverse, format_string, pipe, bspwm_focus_history,
                   nodes_in_history_order, xtitles, sorted_nodes, formated_nodes,
                   sh_scripts, titles, nodes, focused,
                   failed_at>>

\* sh(.. dmenu ..)? fails (dmenu exits non-zero when left without a choice)
DmenuErr ==
    /\ pc = "dmenu"
    /\ dmenu_stdin' = Append(dmenu_stdin, titles)
    /\ pc' = "exit_err"
    /\ failed_at' = "dmenu"
    /\ UNCHANGED <<src, sort_order, reverse, format_string, pipe, bspwm_focus_history,
                   nodes_in_history_order, xtitles, sorted_nodes, formated_nodes,
                   sh_scripts, titles, nodes, target_title, focused>>

\* .position(..).expect("Found title in same vec") finds nothing
FocusPanic ==
    /\ pc = "focus"
    /\ Position(titles, target_title) = 0
    /\ pc' = "panicked"
    /\ UNCHANGED <<src, sort_order, reverse, format_string, pipe, bspwm_focus_history,
                   nodes_in_history_order, xtitles, sorted_nodes, formated_nodes,
                   sh_scripts, titles, nodes, dmenu_stdin, target_title, focused,
                   failed_at>>

\* sh("bspc node --focus <target_node>")? succeeds; Ok(())
FocusOk ==
    /\ pc = "focus"
    /\ Position(titles, target_title) # 0
    /\ focused' = Append(focused, nodes[Position(titles, target_title)])
    /\ pc' = "exit_ok"
    /\ UNCHANGED <<src, sort_order, reverse, format_string, pipe, bspwm_focus_history,
                   nodes_in_history_order, xtitles, sorted_nodes, formated_nodes,
                   sh_scripts, titles, nodes, dmenu_stdin, target_title,
                   failed_at>>

\* sh("bspc node --focus <target_node>")? fails
FocusErr ==
    /\ pc = "focus"
    /\ Position(titles, target_title) # 0
    /\ focused' = Append(focused, nodes[Position(titles, target_title)])
    /\ pc' = "exit_err"
    /\ failed_at' = "bspc node --focus"
    /\ UNCHANGED <<src, sort_order, reverse, format_string, pipe, bspwm_focus_history,
                   nodes_in_history_order, xtitles, sorted_nodes, formated_nodes,
                   sh_scripts, titles, nodes, dmenu_stdin, target_title>>

Next ==
    \/ PrintSrc
    \/ DependenciesOk
    \/ DependenciesErr
    \/ DumpStateOk
    \/ DumpStateErr
    \/ Unique
    \/ XtitleOk
    \/ XtitleErr
    \/ Sort
    \/ Rotate
    \/ RotatePanic
    \/ FormatOk
    \/ FormatErr
    \/ ReverseUnzip
    \/ DmenuSelect
    \/ DmenuCancel
    \/ DmenuErr
    \/ FocusPanic
    \/ FocusOk
    \/ FocusErr

Spec == Init /\ [][Next]_vars

----------------------------------------------------------------------------
(* Properties *)

Range(s) == { s[i] : i \in DOMAIN s }

Terminal == pc \in {"exit_ok", "exit_err", "panicked"}

\* the entries in most-recent-first order, before sorting
Entries == PairedNodes(xtitles, nodes_in_history_order)

\* sorted_nodes holds the final order (the sort and the rotation are done)
Ordered == pc \in {"format", "dmenu", "focus"}

LastIndex(s, x) == CHOOSE i \in DOMAIN s : s[i] = x /\ \A j \in (i + 1)..Len(s) : s[j] # x

IndexOf(s, x) == CHOOSE i \in DOMAIN s : s[i] = x

\* C1: when xtitle prints fewer lines than it was given node ids, the run does
\* not end successfully, and neither dmenu nor bspc node --focus is ever started.
C1_MismatchIsFatal ==
    Len(xtitles) < Len(nodes_in_history_order) =>
        /\ dmenu_stdin = <<>>
        /\ focused = <<>>
        /\ pc # "exit_ok"

\* the user left dmenu without a choice
Cancelled == dmenu_stdin # <<>> /\ (target_title = <<>> \/ failed_at = "dmenu")

\* C2: when dmenu is left without a choice (empty output or non-zero exit),
\* bspc node --focus is never started and the run ends without error or panic.
C2_CancelExitsCleanly ==
    Cancelled => /\ focused = <<>>
                 /\ pc \notin {"exit_err", "panicked"}

\* C3: when dmenu prints the text of a formatted line, bspc node --focus is
\* started exactly once, with the node id bound to the first line in display
\* order that has this text, which is the id of the entry that line was
\* formatted from.
C3_RoundTrip ==
    (Terminal /\ target_title \in Range(titles)) =>
        \E k \in DOMAIN titles :
            /\ titles[k] = target_title
            /\ \A j \in 1..(k - 1) : titles[j] # target_title
            /\ focused = <<nodes[k]>>
            /\ formated_nodes[k] = <<titles[k], nodes[k]>>
            /\ sorted_nodes[IF reverse THEN Len(titles) + 1 - k ELSE k][2] = nodes[k]

C3_Witness ==
    /\ pc = "exit_ok"
    /\ \E j, k \in DOMAIN titles :
          /\ j < k
          /\ titles[j] = titles[k]
          /\ target_title = titles[k]
          /\ focused = <<nodes[j]>>
          /\ nodes[j] # nodes[k]

\* C4: the deduplicated list holds every node id of the focus history exactly
\* once and nothing else, the ids ordered by their last occurrence in the
\* history, most recent first.
C4_Dedup ==
    pc = "xtitle" =>
        LET h == bspwm_focus_history
            d == nodes_in_history_order
        IN /\ Range(d) = Range(h)
           /\ \A i, j \in DOMAIN d : i # j => d[i] # d[j]
           /\ \A i, j \in DOMAIN d : i < j => LastIndex(h, d[i]) > LastIndex(h, d[j])

C4_Witness ==
    /\ pc = "xtitle"
    /\ Len(bspwm_focus_history) = MaxHist
    /\ Len(nodes_in_history_order) = 2
    /\ bspwm_focus_history[1] = bspwm_focus_history[MaxHist]

\* C5: the line number and title every formatting script gets, and the text and
\* node id of every entry, do not depend on the reverse flag; the lines handed
\* to dmenu are those of the entries in sorted order, reversed exactly when the
\* flag is set.
C5_ReverseIndependence ==
    pc \in {"dmenu", "focus"} =>
        LET n == Len(sorted_nodes)
            line(i) == << ShOutput(format_string, pipe,
                              [ line_number |-> i - 1,
                                xtitle |-> ReplaceQuote(sorted_nodes[i][1]),
                                number_of_nodes |-> Len(xtitles) ]),
                          sorted_nodes[i][2] >>
        IN /\ Len(sh_scripts) = n /\ Len(titles) = n /\ Len(nodes) = n
           /\ \A i \in 1..n :
                 /\ sh_scripts[i].line_number = i - 1
                 /\ sh_scripts[i].xtitle = ReplaceQuote(sorted_nodes[i][1])
                 /\ <<titles[i], nodes[i]>> = line(IF reverse THEN n + 1 - i ELSE i)

C5_Witness ==
    /\ pc = "dmenu"
    /\ reverse
    /\ Len(titles) = 3
    /\ titles[1] # titles[3]
    /\ nodes[1] = sorted_nodes[3][2]

\* C6: under FocusHistory a non-empty list of entries e1, e2 .. en (most recent
\* first) is ordered e2 .. en, e1; under FocusHistoryCurrentFirst the order is
\* unchanged; the line numbers of the formatting scripts are 0, 1 .. in that
\* order.
C6_Rotation ==
    Ordered =>
        LET n == Len(Entries)
        IN /\ (sort_order = "FocusHistory" /\ n > 0) =>
                 /\ Len(sorted_nodes) = n
                 /\ \A i \in 1..(n - 1) : sorted_nodes[i] = Entries[i + 1]
                 /\ sorted_nodes[n] = Entries[1]
           /\ sort_order = "FocusHistoryCurrentFirst" => sorted_nodes = Entries
           /\ sort_order \in {"FocusHistory", "FocusHistoryCurrentFirst"} =>
                 \A i \in DOMAIN sh_scripts :
                    /\ sh_scripts[i].line_number = i - 1
                    /\ sh_scripts[i].xtitle = ReplaceQuote(sorted_nodes[i][1])

C6_Witness ==
    /\ pc = "format"
    /\ sort_order = "FocusHistory"
    /\ Len(Entries) = 3
    /\ Len(sh_scripts) = 3
    /\ sorted_nodes[3] = Entries[1]

\* C7: the number_of_nodes every formatting script gets is the number of entries
\* that are formatted and listed in dmenu.
C7_CountIsEntriesListed ==
    \A i \in DOMAIN sh_scripts : sh_scripts[i].number_of_nodes = Len(sorted_nodes)

\* C8: the formatting scripts run one after the other in line number order; when
\* one fails the run ends in an error and neither dmenu nor bspc node --focus is
\* started; dmenu is only ever started with the lines of all entries.
C8_RenderFailureIsFatal ==
    /\ \A i \in DOMAIN sh_scripts : sh_scripts[i].line_number = i - 1
    /\ Len(sh_scripts) \in {Len(formated_nodes), Len(formated_nodes) + 1}
    /\ failed_at = "format" =>
          /\ pc = "exit_err"
          /\ Len(sh_scripts) = Len(formated_nodes) + 1
          /\ dmenu_stdin = <<>>
          /\ focused = <<>>
    /\ dmenu_stdin # <<>> =>
          /\ Len(dmenu_stdin) = 1
          /\ Len(dmenu_stdin[1]) = Len(sorted_nodes)
          /\ Len(sh_scripts) = Len(sorted_nodes)
          /\ dmenu_stdin[1] = titles
    /\ focused # <<>> => dmenu_stdin # <<>>

C8_Witness ==
    /\ failed_at = "format"
    /\ Len(formated_nodes) = 1
    /\ Len(sorted_nodes) = 3

\* C9: under Alphabetical the order is a permutation of the entries, ascending
\* by lower-cased title, and entries whose lower-cased titles are equal keep
\* the order they had before.
C9_AlphabeticalStable ==
    (Ordered /\ sort_order = "Alphabetical") =>
        LET s == sorted_nodes
            low(i) == to_lowercase(s[i][1])
        IN /\ Len(s) = Len(Entries)
           /\ Range(s) = Range(Entries)
           /\ \A i, j \in DOMAIN s : i < j =>
                 /\ StrCmp(low(i), low(j)) <= 0
                 /\ low(i) = low(j) => IndexOf(Entries, s[i]) < IndexOf(Entries, s[j])

C9_Witness ==
    /\ pc = "format"
    /\ sort_order = "Alphabetical"
    /\ Len(Entries) = 3
    /\ <<Entries[1][1], Entries[2][1], Entries[3][1]>> = << <<"B", "'">>, <<"a">>, <<"A">> >>
    /\ <<sorted_nodes[1][1], sorted_nodes[2][1], sorted_nodes[3][1]>>
          = << <<"a">>, <<"A">>, <<"B", "'">> >>

\* the pairing and the sort are done and left no entry
ZeroEntries ==
    /\ sorted_nodes = <<>>
    /\ \/ pc \in {"rotate", "format", "dmenu", "focus", "panicked"}
       \/ pc = "exit_err" /\ failed_at \in {"format", "dmenu", "bspc node --focus"}
       \/ pc = "exit_ok" /\ ~src

\* C10: with no entry left the run, under every sort order, neither panics nor
\* ends in an error, and bspc node --focus is not started.
C10_ZeroEntriesNoDispatch ==
    ZeroEntries => /\ pc \notin {"panicked", "exit_err"}
                   /\ focused = <<>>
====
